---- MODULE Spec2Model ----
(***************************************************************************)
(* The download watcher (waitForDownload / checkDownload) and the          *)
(* orchestration scripts that call it.                                     *)
(*                                                                         *)
(* Time is a discrete clock.  One clock unit is half a poll interval       *)
(* (50 ms), so that the writer can change a file between two polls.        *)
(* setTimeout callbacks fire exactly when they are due; every callback     *)
(* runs to completion (one action), as on the Node.js event loop.          *)
(***************************************************************************)
EXTENDS Integers, Sequences, FiniteSets, TLC

\* ---------------------------------------------------------------- bounds
MaxTime == 6
MaxSize == 1
MaxTimeout == 2
ConcMaxTime == 5

\* ------------------------------------------------------- program constants
\* setTimeout(..., 100): 100 ms, in clock units of 50 ms
PollInterval == 2
\* waitForDownload(timeout = 30000), scaled to the model's horizon
DefaultTimeout == MaxTimeout
downloadPath == "downloads"
null == <<>>

Names == {"f1", "f2"}
Sessions == {1, 2}
Timeouts == 0..MaxTimeout
\* the ghost clocks `age` stop counting here
AgeCap == 2 * PollInterval + 1

VARIABLES
  now,        \* Date.now(), in clock units
  alive,      \* the Node.js process has not died of an uncaught exception
  dirExists,  \* the downloads directory exists
  dir,        \* its entries, in the order readdirSync enumerates them
  size,       \* size of each entry (0 for a name that is not an entry)
  sess,       \* one record per waitForDownload invocation
  hist,       \* history (ghost) of each invocation, read by the properties only
  age,        \* ghost: clock units since a new entry was created or resized (capped)
  script,     \* which entry script runs (0: none, the watcher is called directly)
  pc,         \* the position of the script's async function
  browser,    \* "none", "open" or "closed"
  server,     \* "none", "listening" or "closed"
  downloadedFile, \* the value awaited from waitForDownload()
  exitCode,   \* the process's exit code, NoExit while it runs
  log         \* the steps the script has taken, in order

mainVars == <<script, pc, browser, server, downloadedFile, exitCode, log>>
vars == <<now, alive, dirExists, dir, size, sess, hist, age,
          script, pc, browser, server, downloadedFile, exitCode, log>>

\* ------------------------------------------------------------- helpers
Min(a, b) == IF a < b THEN a ELSE b

\* Array.prototype.includes
Includes(s, x) == \E i \in 1..Len(s) : s[i] = x

\* path.join(downloadPath, name)
PathJoin(d, n) == <<d, n>>

\* the entry a path of the downloads directory names
BaseName(p) == p[2]

InsertAt(s, i, x) == SubSeq(s, 1, i - 1) \o <<x>> \o SubSeq(s, i, Len(s))

Remove(s, x) == LET Keep(y) == y # x IN SelectSeq(s, Keep)

\* fs.readdirSync(downloadPath) succeeds iff the directory exists
CanList == dirExists

\* fs.statSync(p) succeeds iff p names an entry
CanStat(p) == dirExists /\ Includes(dir, BaseName(p))

\* fs.statSync(p).size
StatSize(p) == size[BaseName(p)]

\* faulty variant: the listing is not filtered by the baseline
UnfilteredFiles(currentFiles, initialFiles) == currentFiles

\* faulty variant: the new entries come out in reverse enumeration order
NewFilesReversed(currentFiles, initialFiles) ==
  LET IsNew(file) == ~Includes(initialFiles, file)
      n == SelectSeq(currentFiles, IsNew)
  IN  [i \in 1..Len(n) |-> n[Len(n) + 1 - i]]

\* currentFiles.filter(file => !initialFiles.includes(file))
NewFiles(currentFiles, initialFiles) ==
  LET IsNew(file) == ~Includes(initialFiles, file)
  IN  SelectSeq(currentFiles, IsNew)

IdleSession ==
  [status |-> "idle", timeout |-> 0, startTime |-> 0, initialFiles |-> <<>>,
   filePath |-> null, fileSizeBefore |-> 0, due |-> 0, result |-> null,
   error |-> "none",
   timers |-> 0,    \* the setTimeout callbacks of the session that have not run yet
   settles |-> 0]   \* how often the promise was resolved or rejected

IdleHist ==
  [reads |-> <<>>,    \* the size reads of the current round: [at, path, size]
   lastPoll |-> 0,    \* when the directory was last listed
   grewLate |-> FALSE, \* a re-read made after the timeout found the size changed
   seen |-> {},       \* new entries created while the session was pending, still there
   made |-> {},       \* names of all new entries created while it was pending
   early |-> FALSE,   \* a new entry was created no later than timeout after the start
   reported |-> {}]   \* paths earlier invocations resolved with

\* ghost: a fresh history that remembers the paths earlier invocations reported
FreshHist(h, r) ==
  [IdleHist EXCEPT !.reported =
     h.reported \cup (IF r.status = "resolved" /\ r.result # null
                      THEN {r.result} ELSE {})]

Pending(r) == r.status \in {"waiting", "verifying"}

\* faulty variant: a throw rejects the promise wherever it happens
ThrowAlwaysRejects(r, inExecutor, call) ==
  [r EXCEPT !.status = "rejected", !.error = call, !.settles = @ + 1]

\* a throw: inside the promise executor it rejects the promise; inside a
\* setTimeout callback nothing catches it and the promise stays unsettled
Throw(r, inExecutor, call) ==
  [r EXCEPT !.status = IF inExecutor THEN "rejected" ELSE "uncaught",
            !.error = call,
            !.settles = IF inExecutor THEN @ + 1 ELSE @]

\* faulty variant: the timers are set to 150 ms
SlowTimerDelay == PollInterval + 1

\* the delay of both setTimeout calls
TimerDelay == PollInterval

\* faulty variant: the elapsed time is never compared with the timeout
KeepPollingForever(r) == TRUE

\* faulty variant: the polling stops one timer delay early
KeepPollingShort(r) == now - r.startTime + PollInterval < r.timeout

\* the else-if branch: keep polling while Date.now() - startTime < timeout
KeepPolling(r) == now - r.startTime < r.timeout

\* checkDownload(), for the session record r
CheckDownload(r, inExecutor) ==
  IF ~CanList THEN Throw(r, inExecutor, "readdirSync")
  ELSE
    LET currentFiles == dir
        newFiles == NewFiles(currentFiles, r.initialFiles)
    IN  IF Len(newFiles) > 0
        THEN LET filePath == PathJoin(downloadPath, newFiles[1])
             IN  [r EXCEPT !.status = "verifying",
                           !.filePath = filePath,
                           !.fileSizeBefore = StatSize(filePath),
                           !.due = now + TimerDelay,
                           !.timers = @ + 1]
        ELSE IF KeepPolling(r)
             THEN [r EXCEPT !.status = "waiting", !.filePath = null,
                            !.due = now + TimerDelay,
                            !.timers = @ + 1]
             ELSE [r EXCEPT !.status = "resolved", !.filePath = null,
                            !.result = null,
                            !.settles = @ + 1]

\* the ghost record after checkDownload() turned r into r2
PollHist(h, r2) ==
  IF r2.status = "verifying"
  THEN [h EXCEPT !.lastPoll = now,
                 !.reads = <<[at |-> now, path |-> r2.filePath,
                              size |-> r2.fileSizeBefore]>>]
  ELSE IF r2.status \in {"waiting", "resolved"}
       THEN [h EXCEPT !.lastPoll = now]
       ELSE h

\* faulty variant: the baseline is taken to be empty
ExecutorEmptyBaseline(timeout) ==
  IF ~CanList
  THEN Throw([IdleSession EXCEPT !.timeout = timeout, !.startTime = now],
             TRUE, "readdirSync")
  ELSE CheckDownload([IdleSession EXCEPT !.timeout = timeout,
                                          !.startTime = now], TRUE)

\* the promise executor of waitForDownload(timeout)
Executor(timeout) ==
  IF ~CanList
  THEN Throw([IdleSession EXCEPT !.timeout = timeout, !.startTime = now],
             TRUE, "readdirSync")
  ELSE CheckDownload([IdleSession EXCEPT !.timeout = timeout,
                                          !.startTime = now,
                                          !.initialFiles = dir], TRUE)

\* faulty variant: the size check always passes
SameSizeAlways(before, after) == TRUE

\* the comparison fileSizeBefore === fileSizeAfter
SameSize(before, after) == before = after

\* faulty variant: checkDownload() is called again after resolve(filePath)
RecheckThenPollAnyway(r) ==
  IF ~CanStat(r.filePath) THEN Throw(r, FALSE, "statSync")
  ELSE LET fileSizeAfter == StatSize(r.filePath)
       IN  IF SameSize(r.fileSizeBefore, fileSizeAfter)
           THEN CheckDownload([r EXCEPT !.result = r.filePath,
                                        !.settles = @ + 1], FALSE)
           ELSE CheckDownload(r, FALSE)

\* the callback of setTimeout(() => {...}, 100) of the size check
Recheck(r) ==
  IF ~CanStat(r.filePath) THEN Throw(r, FALSE, "statSync")
  ELSE LET fileSizeAfter == StatSize(r.filePath)
       IN  IF SameSize(r.fileSizeBefore, fileSizeAfter)
           THEN [r EXCEPT !.status = "resolved", !.result = r.filePath,
                          !.settles = @ + 1]
           ELSE CheckDownload(r, FALSE)

RecheckHist(h, r, r2) ==
  IF ~CanStat(r.filePath) THEN h
  ELSE LET h1 == [h EXCEPT !.reads = <<h.reads[Len(h.reads)],
                                       [at |-> now, path |-> r.filePath,
                                        size |-> StatSize(r.filePath)]>>]
       IN  IF r2.status = "resolved" /\ r2.result # null THEN h1
           ELSE PollHist([h1 EXCEPT !.grewLate =
                                      @ \/ (now - r.startTime > r.timeout)], r2)

\* the session record when one of its timers has fired and its callback starts
Fired(r) == [r EXCEPT !.timers = @ - 1]

\* an uncaught exception ends the process
StillAlive(r2) == r2.status # "uncaught"

\* ------------------------------------------------------------- actions
\* waitForDownload(timeout) is called
StartSession(s, timeout) ==
  /\ alive
  /\ ~Pending(sess[s])
  /\ LET r2 == Executor(timeout)
     IN  /\ sess' = [sess EXCEPT ![s] = r2]
         /\ hist' = [hist EXCEPT ![s] = PollHist(FreshHist(hist[s], sess[s]), r2)]
  /\ UNCHANGED <<now, alive, dirExists, dir, size, age>>

\* the timer set by setTimeout(checkDownload, 100) fires
TimerCheck(s) ==
  /\ alive
  /\ sess[s].status = "waiting"
  /\ sess[s].due = now
  /\ LET r2 == CheckDownload(Fired(sess[s]), FALSE)
     IN  /\ sess' = [sess EXCEPT ![s] = r2]
         /\ hist' = [hist EXCEPT ![s] = PollHist(hist[s], r2)]
         /\ alive' = StillAlive(r2)
  /\ UNCHANGED <<now, dirExists, dir, size, age>>

\* faulty variant: the size check removes the file it reports
TimerRecheckCleaning(s) ==
  /\ alive
  /\ sess[s].status = "verifying"
  /\ sess[s].due = now
  /\ LET r2 == Recheck(Fired(sess[s]))
         done == r2.status = "resolved" /\ r2.result # null
     IN  /\ sess' = [sess EXCEPT ![s] = r2]
         /\ hist' = [hist EXCEPT ![s] = RecheckHist(hist[s], sess[s], r2)]
         /\ alive' = StillAlive(r2)
         /\ dir' = IF done THEN Remove(dir, BaseName(r2.result)) ELSE dir
  /\ UNCHANGED <<now, dirExists, size, age>>

\* the timer of the size check fires
TimerRecheck(s) ==
  /\ alive
  /\ sess[s].status = "verifying"
  /\ sess[s].due = now
  /\ LET r2 == Recheck(Fired(sess[s]))
     IN  /\ sess' = [sess EXCEPT ![s] = r2]
         /\ hist' = [hist EXCEPT ![s] = RecheckHist(hist[s], sess[s], r2)]
         /\ alive' = StillAlive(r2)
  /\ UNCHANGED <<now, dirExists, dir, size, age>>

\* ghost: a new entry f appeared while session s was pending
NoteCreated(h, r, f) ==
  IF Pending(r) /\ ~Includes(r.initialFiles, f)
  THEN [h EXCEPT !.seen = @ \cup {f},
                 !.made = @ \cup {f},
                 !.early = @ \/ (now - r.startTime <= r.timeout)]
  ELSE h

\* ghost: the entries of `gone` are no longer there
NoteDeleted(h, gone) == [h EXCEPT !.seen = @ \ gone]

\* the browser (or anything else) creates an entry of the directory
Create(f, pos, sz) ==
  /\ dirExists
  /\ ~Includes(dir, f)
  /\ pos \in 1..(Len(dir) + 1)
  /\ dir' = InsertAt(dir, pos, f)
  /\ size' = [size EXCEPT ![f] = sz]
  /\ hist' = [s \in Sessions |-> NoteCreated(hist[s], sess[s], f)]
  /\ age' = [age EXCEPT ![f] = 0]
  /\ UNCHANGED <<now, alive, dirExists, sess>>

\* the writer appends to an entry
AppendTo(f) ==
  /\ Includes(dir, f)
  /\ size[f] < MaxSize
  /\ size' = [size EXCEPT ![f] = @ + 1]
  /\ age' = [age EXCEPT ![f] = 0]
  /\ UNCHANGED <<now, alive, dirExists, dir, sess, hist>>

\* an entry is removed or renamed away
Delete(f) ==
  /\ Includes(dir, f)
  /\ dir' = Remove(dir, f)
  /\ size' = [size EXCEPT ![f] = 0]
  /\ age' = [age EXCEPT ![f] = 0]
  /\ hist' = [s \in Sessions |-> NoteDeleted(hist[s], {f})]
  /\ UNCHANGED <<now, alive, dirExists, sess>>

\* the directory is removed or becomes unreadable
RemoveDir ==
  /\ dirExists
  /\ dirExists' = FALSE
  /\ dir' = <<>>
  /\ size' = [f \in Names |-> 0]
  /\ age' = [f \in Names |-> 0]
  /\ hist' = [s \in Sessions |-> NoteDeleted(hist[s], Names)]
  /\ UNCHANGED <<now, alive, sess>>

\* ghost: f was created while some session was pending, and is still there
Watched(f) == \E s \in Sessions : f \in hist[s].seen

\* a live timer that is due must run before the clock moves on
TimerDue == alive /\ \E s \in Sessions : Pending(sess[s]) /\ sess[s].due <= now

\* the clock's origin is the first call of waitForDownload
Tick(horizon) ==
  /\ now < horizon
  /\ \E s \in Sessions : sess[s].status # "idle"
  /\ ~TimerDue
  /\ now' = now + 1
  /\ age' = [f \in Names |-> IF Watched(f) THEN Min(age[f] + 1, AgeCap) ELSE 0]
  /\ UNCHANGED <<alive, dirExists, dir, size, sess, hist>>

Writer ==
  \/ \E f \in Names, pos \in 1..(Cardinality(Names)), sz \in 0..MaxSize : Create(f, pos, sz)
  \/ \E f \in Names : AppendTo(f)
  \/ \E f \in Names : Delete(f)
  \/ RemoveDir

\* ------------------------------------------------- the entry scripts
\* 1: src/entry.cjs lines 1-62; 2: src/entry.cjs lines 66-289; 3: src/unnamed/part_000
Scripts == {1, 2, 3}
NoExit == -1
undefined == <<"undefined">>

\* the scripts whose async function ends in .catch(err => process.exit(1))
HasCatch(sc) == sc \in {2, 3}

\* the scripts that await waitForDownload() after the export
WaitsForDownload(sc) == sc \in {2, 3}

\* the step after each step of the async function
NextPc(sc, at) ==
  CASE at = "mkdir" -> "listen"
    [] at = "listen" -> "launch"
    [] at = "launch" -> "setupPage"
    [] at = "setupPage" -> "goto"
    [] at = "goto" -> IF sc = 2 THEN "inject" ELSE "generate"
    [] at = "inject" -> "generate"
    [] at = "generate" -> IF sc = 1 THEN "export" ELSE "stats"
    [] at = "stats" -> "export"
    [] at = "export" -> IF WaitsForDownload(sc) THEN "wait" ELSE "closeBrowser"
    [] at = "wait" -> "awaiting"
    [] at = "awaiting" -> "closeBrowser"
    [] at = "closeBrowser" -> "closeServer"
    [] at = "closeServer" -> "finished"
    [] OTHER -> "exited"

\* the exit code once the async function has returned and the event loop is empty
NormalExitCode == 0

\* process.exit(1) in the catch handler
CatchExitCode == 1

\* the exit code of a process that dies of an uncaught exception
UncaughtExitCode == 1

\* fs.existsSync / fs.mkdirSync of the download directory
Mkdir ==
  /\ alive /\ pc = "mkdir"
  /\ dirExists' = TRUE
  /\ pc' = NextPc(script, pc)
  /\ log' = log
  /\ UNCHANGED <<now, alive, dir, size, sess, hist, age,
                 script, browser, server, downloadedFile, exitCode>>

\* a rejected await: the catch handler where there is one; without one the
\* rejection is unhandled, which ends the process or only warns, by Node version
RejectedAfter(steps) ==
  /\ log' = Append(steps, IF HasCatch(script) THEN "error" ELSE "unhandled")
  /\ IF HasCatch(script)
     THEN /\ pc' = "exited" /\ exitCode' = CatchExitCode /\ alive' = FALSE
     ELSE \/ /\ pc' = "exited" /\ exitCode' = UncaughtExitCode /\ alive' = FALSE
          \/ /\ pc' = "hung" /\ exitCode' = exitCode /\ alive' = alive

\* a rejected await of a step that left no trace in the log
Rejected == RejectedAfter(log)

\* faulty variant: the script goes on after a bind failure
ListenThenGoOn ==
  /\ alive /\ pc = "listen"
  /\ \/ /\ server' = "listening"
        /\ log' = Append(log, "listen")
     \/ /\ server' = server
        /\ log' = Append(log, "bindFailed")
  /\ pc' = NextPc(script, pc)
  /\ UNCHANGED <<now, alive, dirExists, dir, size, sess, hist, age,
                 script, browser, downloadedFile, exitCode>>

\* server.listen(PORT, cb): a bind failure is an 'error' event nobody listens to
Listen ==
  /\ alive /\ pc = "listen"
  /\ \/ /\ server' = "listening"
        /\ pc' = NextPc(script, pc)
        /\ log' = Append(log, "listen")
        /\ UNCHANGED <<alive, exitCode>>
     \/ /\ server' = server
        /\ pc' = "exited"
        /\ alive' = FALSE
        /\ exitCode' = UncaughtExitCode
        /\ log' = Append(log, "bindFailed")
  /\ UNCHANGED <<now, dirExists, dir, size, sess, hist, age,
                 script, browser, downloadedFile>>

\* await puppeteer.launch(...)
Launch ==
  /\ alive /\ pc = "launch"
  /\ \/ /\ browser' = "open"
        /\ pc' = NextPc(script, pc)
        /\ log' = Append(log, "launch")
        /\ UNCHANGED <<alive, exitCode>>
     \/ /\ browser' = browser
        /\ Rejected
  /\ UNCHANGED <<now, dirExists, dir, size, sess, hist, age,
                 script, server, downloadedFile>>

\* the awaited page steps: newPage and the CDP session, goto, the parameter
\* injection, generate, the statistics, exportToJson('Full')
PageSteps == {"setupPage", "goto", "inject", "generate", "stats", "export"}

PageStep ==
  /\ alive /\ pc \in PageSteps
  /\ \/ /\ pc' = NextPc(script, pc)
        /\ log' = Append(log, pc)
        /\ UNCHANGED <<alive, exitCode>>
     \/ Rejected
  /\ UNCHANGED <<now, dirExists, dir, size, sess, hist, age,
                 script, browser, server, downloadedFile>>

\* the call waitForDownload() with the default timeout
CallWait ==
  /\ pc = "wait"
  /\ StartSession(1, DefaultTimeout)
  /\ pc' = NextPc(script, pc)
  /\ log' = Append(log, "waitForDownload")
  /\ UNCHANGED <<script, browser, server, downloadedFile, exitCode>>

\* const downloadedFile = await waitForDownload() resumes
AwaitWait ==
  /\ alive /\ pc = "awaiting"
  /\ sess[1].status \in {"resolved", "rejected"}
  /\ IF sess[1].status = "resolved"
     THEN /\ downloadedFile' = sess[1].result
          /\ pc' = NextPc(script, pc)
          /\ log' = Append(log, "settled")
          /\ UNCHANGED <<alive, exitCode>>
     ELSE /\ downloadedFile' = downloadedFile
          /\ Rejected
  /\ UNCHANGED <<now, dirExists, dir, size, sess, hist, age,
                 script, browser, server>>

\* await browser.close()
CloseBrowser ==
  /\ alive /\ pc = "closeBrowser"
  /\ \/ /\ browser' = "closed"
        /\ pc' = NextPc(script, pc)
        /\ log' = Append(log, "browser.close")
        /\ UNCHANGED <<alive, exitCode>>
     \/ /\ browser' = browser
        /\ RejectedAfter(Append(log, "browser.close"))
  /\ UNCHANGED <<now, dirExists, dir, size, sess, hist, age,
                 script, server, downloadedFile>>

\* the message that ends the async function
Report(sc, file) ==
  IF ~WaitsForDownload(sc) THEN "should have been downloaded"
  ELSE IF file # null THEN "successfully downloaded"
  ELSE "Failed to download"

\* faulty variant: the message is printed before the server is closed
CloseServerAfterMessage ==
  /\ alive /\ pc = "closeServer"
  /\ server' = "closed"
  /\ pc' = NextPc(script, pc)
  /\ log' = log \o <<Report(script, downloadedFile), "server.close">>
  /\ UNCHANGED <<now, alive, dirExists, dir, size, sess, hist, age,
                 script, browser, downloadedFile, exitCode>>

\* server.close(cb) and the message after it
CloseServer ==
  /\ alive /\ pc = "closeServer"
  /\ server' = "closed"
  /\ pc' = NextPc(script, pc)
  /\ log' = log \o <<"server.close", Report(script, downloadedFile)>>
  /\ UNCHANGED <<now, alive, dirExists, dir, size, sess, hist, age,
                 script, browser, downloadedFile, exitCode>>

\* the async function has returned and nothing is left on the event loop
Exit ==
  /\ alive /\ pc = "finished"
  /\ pc' = "exited"
  /\ exitCode' = NormalExitCode
  /\ alive' = FALSE
  /\ UNCHANGED <<now, dirExists, dir, size, sess, hist, age,
                 script, browser, server, downloadedFile, log>>

\* an exception thrown in a timer callback ends the process
Crash ==
  /\ ~alive /\ pc \notin {"exited", "none"}
  /\ pc' = "exited"
  /\ exitCode' = UncaughtExitCode
  /\ log' = Append(log, "uncaught")
  /\ UNCHANGED <<now, alive, dirExists, dir, size, sess, hist, age,
                 script, browser, server, downloadedFile>>

Init ==
  /\ now = 0
  /\ alive = TRUE
  /\ dirExists = TRUE
  /\ dir = <<>>
  /\ size = [f \in Names |-> 0]
  /\ sess = [s \in Sessions |-> IdleSession]
  /\ hist = [s \in Sessions |-> IdleHist]
  /\ age = [f \in Names |-> 0]
  /\ script = 0
  /\ pc = "none"
  /\ browser = "none"
  /\ server = "none"
  /\ downloadedFile = undefined
  /\ exitCode = NoExit
  /\ log = <<>>

\* calls of waitForDownload one after the other, as the scripts make them;
\* a call is made while its last poll still lies within the clock's horizon
Next ==
  \/ \E t \in Timeouts : /\ now + t < MaxTime
                         /\ StartSession(1, t)
                         /\ UNCHANGED mainVars
  \/ TimerCheck(1) /\ UNCHANGED mainVars
  \/ TimerRecheck(1) /\ UNCHANGED mainVars
  \/ Writer /\ UNCHANGED mainVars
  \/ Tick(MaxTime) /\ UNCHANGED mainVars

Spec == Init /\ [][Next]_vars

\* one call of waitForDownload
OneNext ==
  \/ \E t \in Timeouts : /\ sess[1].status = "idle"
                         /\ now + t < MaxTime
                         /\ StartSession(1, t)
                         /\ UNCHANGED mainVars
  \/ TimerCheck(1) /\ UNCHANGED mainVars
  \/ TimerRecheck(1) /\ UNCHANGED mainVars
  \/ Writer /\ UNCHANGED mainVars
  \/ Tick(MaxTime) /\ UNCHANGED mainVars

OneSpec == Init /\ [][OneNext]_vars

\* the event loop runs every timer that is due, and time passes
FairSpec ==
  /\ Init /\ [][OneNext]_vars
  /\ WF_vars(TimerCheck(1) /\ UNCHANGED mainVars)
  /\ WF_vars(TimerRecheck(1) /\ UNCHANGED mainVars)
  /\ WF_vars(Tick(MaxTime) /\ UNCHANGED mainVars)

\* two calls of waitForDownload() whose polls interleave: the second call is
\* made less than one poll interval after the first, in or out of phase with it
ConcNext ==
  \/ \E s \in Sessions : /\ sess[s].status = "idle"
                          /\ now < PollInterval
                          /\ StartSession(s, DefaultTimeout)
                          /\ UNCHANGED mainVars
  \/ \E s \in Sessions : TimerCheck(s) /\ UNCHANGED mainVars
  \/ \E s \in Sessions : TimerRecheck(s) /\ UNCHANGED mainVars
  \/ Writer /\ UNCHANGED mainVars
  \/ Tick(ConcMaxTime) /\ UNCHANGED mainVars

ConcSpec == Init /\ [][ConcNext]_vars

\* one run of an entry script
MainInit ==
  /\ now = 0
  /\ alive = TRUE
  /\ dirExists \in BOOLEAN
  /\ dir = <<>>
  /\ size = [f \in Names |-> 0]
  /\ sess = [s \in Sessions |-> IdleSession]
  /\ hist = [s \in Sessions |-> IdleHist]
  /\ age = [f \in Names |-> 0]
  /\ script \in Scripts
  /\ pc = "mkdir"
  /\ browser = "none"
  /\ server = "none"
  /\ downloadedFile = undefined
  /\ exitCode = NoExit
  /\ log = <<>>

MainNext ==
  \/ Mkdir
  \/ Listen
  \/ Launch
  \/ PageStep
  \/ CallWait
  \/ TimerCheck(1) /\ UNCHANGED mainVars
  \/ TimerRecheck(1) /\ UNCHANGED mainVars
  \/ AwaitWait
  \/ CloseBrowser
  \/ CloseServer
  \/ Exit
  \/ Crash
  \/ Writer /\ UNCHANGED mainVars
  \/ Tick(MaxTime) /\ UNCHANGED mainVars

MainSpec == MainInit /\ [][MainNext]_vars

\* ======================================================== the claims
Started(s) == sess[s].status # "idle"

ResolvedWithPath(s) == sess[s].status = "resolved" /\ sess[s].result # null

ResolvedWithNull(s) == sess[s].status = "resolved" /\ sess[s].result = null

\* C1: a session whose candidate's size was still found changed by a re-read
\* made after timeoutMs had elapsed has resolved with null (the timeout signal).
C1_GrowingFileTimesOut ==
  \A s \in Sessions :
    (alive /\ Started(s) /\ hist[s].grewLate) => ResolvedWithNull(s)

\* C2: no call of waitForDownload(timeout) is still unresolved later than
\* timeout plus one poll interval after it was made.
C2_BoundedByTimeout ==
  \A s \in Sessions :
    (alive /\ Pending(sess[s]))
      => now - sess[s].startTime <= sess[s].timeout + PollInterval

\* C3: a session resolves with a path only after two reads of that path's size,
\* one poll interval apart, the first made by the session's latest listing poll,
\* that returned the same size.
C3_StableBeforeReported ==
  \A s \in Sessions :
    ResolvedWithPath(s) =>
      LET rd == hist[s].reads
      IN  /\ Len(rd) = 2
          /\ rd[1].path = sess[s].result
          /\ rd[2].path = sess[s].result
          /\ rd[1].size = rd[2].size
          /\ rd[2].at - rd[1].at = PollInterval
          /\ hist[s].lastPoll = rd[1].at

\* a session has resolved with the path of a file whose size is not 0
C3_Witness ==
  \E s \in Sessions :
    /\ ResolvedWithPath(s)
    /\ Len(hist[s].reads) = 2
    /\ hist[s].reads[2].size > 0

FoundNew(s) == hist[s].reads # <<>>

C5_ReportedWithinTwoPolls ==
  \A s \in Sessions : \A f \in hist[s].seen :
    age[f] > 2 * PollInterval
      => (ResolvedWithPath(s) /\ sess[s].result = PathJoin(downloadPath, f))

\* C5 as amended: the same, for a new entry F that is the only entry absent
\* from the baseline to exist at any time during the session: the session is
\* unresolved for at most two poll intervals after F's size stopped changing,
\* and it resolves with F's path, not with null or an error.
C5_OnlyNewEntryReported ==
  \A s \in Sessions : \A f \in hist[s].seen :
    hist[s].made = {f} =>
      /\ sess[s].status \in {"waiting", "verifying", "resolved"}
      /\ Pending(sess[s]) => age[f] <= 2 * PollInterval
      /\ sess[s].status = "resolved"
           => sess[s].result = PathJoin(downloadPath, f)

\* with a file in the baseline, the session has just resolved with the only
\* new entry's path, exactly two poll intervals after its size stopped changing
C5_Witness ==
  \E s \in Sessions : \E f \in hist[s].seen :
    /\ hist[s].made = {f}
    /\ Len(sess[s].initialFiles) > 0
    /\ ResolvedWithPath(s)
    /\ sess[s].result = PathJoin(downloadPath, f)
    /\ hist[s].reads[2].at = now
    /\ age[f] = 2 * PollInterval

\* C6: a session never resolves with the path of an entry whose name is in
\* the listing it captured when it started; a session started after an earlier
\* one reported F, with F in its baseline, resolves with null or with the path
\* of another entry.
C6_BaselineNeverReported ==
  \A s \in Sessions :
    ResolvedWithPath(s) =>
      /\ sess[s].result[1] = downloadPath
      /\ ~Includes(sess[s].initialFiles, BaseName(sess[s].result))
      /\ \A p \in hist[s].reported :
           Includes(sess[s].initialFiles, BaseName(p)) => sess[s].result # p

\* an earlier call reported F, F is still there and in the baseline of the
\* next call, which saw nothing new and resolved with null
C6_Witness ==
  \E s \in Sessions : \E p \in hist[s].reported :
    /\ Includes(sess[s].initialFiles, BaseName(p))
    /\ Includes(dir, BaseName(p))
    /\ hist[s].made = {}
    /\ ResolvedWithNull(s)

\* C7: a run whose watcher resolved with null ends with a non-zero exit code,
\* and a run of a script that waits for the download ends with exit code 0 only
\* if the watcher reported a path.
C7_TimeoutExitsNonZero ==
  /\ (pc = "exited" /\ downloadedFile = null) => exitCode > 0
  /\ (WaitsForDownload(script) /\ exitCode = 0)
       => downloadedFile \notin {null, undefined}

\* C8: a session whose directory listing failed, at the start or at a later
\* poll, has rejected its promise.
C8_ListingFailureRejects ==
  \A s \in Sessions :
    sess[s].error = "readdirSync" => sess[s].status = "rejected"

\* C9: in every script, browser.close and server.close come only after the
\* download watcher has settled.
C9_ShutdownAfterWatcher ==
  \A i \in 1..Len(log) :
    log[i] \in {"browser.close", "server.close"}
      => \E j \in 1..(i - 1) : log[j] = "settled"

\* the next step of session s would not throw
NextStepSucceeds(s) ==
  /\ CanList
  /\ sess[s].status = "verifying" => CanStat(sess[s].filePath)

\* C10: a session is not affected by the other one: as when it runs alone,
\* while it is unresolved and its own next step would succeed, its timer is
\* alive and will fire.
C10_AsIfAlone ==
  \A s \in Sessions : (Pending(sess[s]) /\ NextStepSucceeds(s)) => alive

\* two sessions with the same baseline have resolved with the same path
C10_Witness ==
  /\ ResolvedWithPath(1) /\ ResolvedWithPath(2)
  /\ sess[1].result = sess[2].result
  /\ sess[1].initialFiles = sess[2].initialFiles

\* a step of a watch session: the call with its baseline capture and first
\* poll, a later listing poll, a size re-read, a resolution
WatchStep(s) ==
  \/ sess'[s] # sess[s]
  \/ hist'[s].lastPoll # hist[s].lastPoll
  \/ hist'[s].reads # hist[s].reads

\* C11: no step of a watch session creates, deletes, renames or writes an
\* entry of the watched directory, or the directory itself: the listing and
\* the sizes are the same after the step as before it.
C11_WatcherReadOnly ==
  [][(\E s \in Sessions : WatchStep(s)) => UNCHANGED <<dirExists, dir, size>>]_vars

\* a session with a file in its baseline has gone through every kind of step
\* and resolved with a path; the baseline and the reported file are still
\* there, the file with the size that was read
C11_Witness ==
  \E s \in Sessions :
    /\ ResolvedWithPath(s)
    /\ Len(sess[s].initialFiles) > 0
    /\ \A i \in 1..Len(sess[s].initialFiles) : Includes(dir, sess[s].initialFiles[i])
    /\ Includes(dir, BaseName(sess[s].result))
    /\ size[BaseName(sess[s].result)] = hist[s].reads[2].size
    /\ hist[s].lastPoll > sess[s].startTime

\* the step resolves session s with null
JustResolvedNull(s) ==
  /\ sess'[s] # sess[s]
  /\ sess'[s].status = "resolved"
  /\ sess'[s].result = null

\* C12: a session resolves with null only in a listing poll, made when at least
\* timeoutMs has elapsed since the session started, whose listing has no entry
\* absent from the baseline.
C12_NullOnlyAtLateEmptyPoll ==
  [][\A s \in Sessions :
       JustResolvedNull(s) =>
         /\ dirExists'
         /\ hist'[s].lastPoll = now'
         /\ \A i \in 1..Len(dir') : Includes(sess'[s].initialFiles, dir'[i])
         /\ now' - sess'[s].startTime >= sess'[s].timeout]_vars

\* a session with a positive timeout has just resolved with null, in a poll
\* whose listing is not empty and holds baseline entries only
C12_Witness ==
  \E s \in Sessions :
    /\ ResolvedWithNull(s)
    /\ sess[s].timeout > 0
    /\ hist[s].lastPoll = now
    /\ now - sess[s].startTime >= sess[s].timeout
    /\ Len(dir) > 0
    /\ \A i \in 1..Len(dir) : Includes(sess[s].initialFiles, dir[i])

\* the step is a listing poll of session s that found a new entry
JustFoundNew(s) == sess'[s] # sess[s] /\ sess'[s].status = "verifying"

\* position i of the listing holds the first entry absent from the baseline
FirstNewAt(listing, baseline, i) ==
  /\ i \in 1..Len(listing)
  /\ ~Includes(baseline, listing[i])
  /\ \A j \in 1..(i - 1) : Includes(baseline, listing[j])

\* C13: every listing poll that finds entries absent from the baseline takes
\* as candidate the first of them in the enumeration order of that poll's own
\* listing, and reads the size of that entry only; a session that resolves
\* with a path resolves with the candidate of its last round, both of whose
\* size reads were of that candidate.
C13_FirstNewEntryIsCandidate ==
  /\ [][\A s \in Sessions :
          JustFoundNew(s) =>
            \E i \in 1..Len(dir') :
              /\ FirstNewAt(dir', sess'[s].initialFiles, i)
              /\ sess'[s].filePath = PathJoin(downloadPath, dir'[i])
              /\ sess'[s].fileSizeBefore = size'[dir'[i]]
              /\ hist'[s].reads = <<[at |-> now', path |-> sess'[s].filePath,
                                     size |-> size'[dir'[i]]]>>]_vars
  /\ [](\A s \in Sessions :
          ResolvedWithPath(s) =>
            /\ sess[s].result = sess[s].filePath
            /\ \A k \in 1..Len(hist[s].reads) :
                 hist[s].reads[k].path = sess[s].filePath)

\* two new entries were listed by the session's last poll; the session has
\* resolved with the first one, whatever the size of the other
C13_Witness ==
  \E s \in Sessions :
    /\ ResolvedWithPath(s)
    /\ Len(dir) = 2
    /\ hist[s].seen = {dir[1], dir[2]}
    /\ sess[s].result = PathJoin(downloadPath, dir[1])
    /\ age[dir[2]] > PollInterval
    /\ size[dir[2]] # hist[s].reads[2].size

\* the steps that need the browser: the launch and every page step
BrowserSteps == {"launch"} \cup PageSteps

\* C14: puppeteer.launch is invoked only after server.listen has succeeded,
\* and a bind failure ends the run: the browser is never launched and no
\* navigation, generate or export step follows it.
C14_NoLaunchWithoutListen ==
  /\ pc \in BrowserSteps => (server = "listening" /\ Includes(log, "listen"))
  /\ browser # "none" => Includes(log, "listen")
  /\ \A i \in 1..Len(log) :
       log[i] \in BrowserSteps => \E j \in 1..(i - 1) : log[j] = "listen"
  /\ \A i \in 1..Len(log) :
       log[i] = "bindFailed" =>
         /\ i = Len(log)
         /\ ~Includes(log, "listen")
         /\ browser = "none"
         /\ pc = "exited"

\* the server failed to bind its port and the run is over
C14_Witness ==
  /\ Includes(log, "bindFailed")
  /\ pc = "exited"
  /\ server = "none"
  /\ browser = "none"

Messages ==
  {"successfully downloaded", "Failed to download", "should have been downloaded"}

\* browser.close comes after the watcher resolved, server.close after
\* browser.close, the message after server.close
ClosesInOrder ==
  \A i \in 1..Len(log) :
    /\ log[i] = "browser.close" => \E j \in 1..(i - 1) : log[j] = "settled"
    /\ log[i] = "server.close" => \E j \in 1..(i - 1) : log[j] = "browser.close"
    /\ log[i] \in Messages => \E j \in 1..(i - 1) : log[j] = "server.close"

\* the run went through the catch handler or died of an uncaught exception
FailedRun == Includes(log, "error") \/ Includes(log, "uncaught")

\* a failed run with a launched browser closes neither the browser nor the
\* server, and exits with code 1
NothingClosedOnFailure ==
  (FailedRun /\ browser # "none") =>
    /\ browser = "open"
    /\ server = "listening"
    /\ pc = "exited" => exitCode = 1

\* C15 as claimed: in the scripts that wait for the download, browser.close and
\* server.close are both invoked on every run whose watcher resolved and on no
\* other run, in that order and before the message; a run that fails after the
\* browser was launched closes nothing and exits with code 1.
C15_ClosedExactlyWhenResolved ==
  WaitsForDownload(script) =>
    /\ ClosesInOrder
    /\ (pc = "exited" /\ Includes(log, "settled"))
         => (Includes(log, "browser.close") /\ Includes(log, "server.close"))
    /\ NothingClosedOnFailure

\* C15 as amended: browser.close is invoked on exactly the runs whose watcher
\* resolved, and server.close, followed by the message, on exactly those of
\* them where browser.close() fulfilled; the rest as claimed.
C15_ServerClosedIfBrowserClosed ==
  WaitsForDownload(script) =>
    /\ ClosesInOrder
    /\ (pc = "exited" /\ Includes(log, "settled"))
         => /\ Includes(log, "browser.close")
            /\ Includes(log, "server.close") <=> browser = "closed"
            /\ Includes(log, "server.close") <=> server = "closed"
            /\ Includes(log, "server.close") <=> (\E m \in Messages : Includes(log, m))
    /\ NothingClosedOnFailure

\* the watcher resolved, browser.close() was invoked and rejected: the run
\* ended in the catch handler with the server still listening
C15_Witness ==
  /\ WaitsForDownload(script)
  /\ pc = "exited"
  /\ Includes(log, "settled")
  /\ Includes(log, "browser.close")
  /\ Includes(log, "error")
  /\ server = "listening"
  /\ exitCode = CatchExitCode

\* the steps of the async function up to the return of exportToJson('Full')
BeforeWait == {"mkdir", "listen"} \cup BrowserSteps \cup {"wait"}

\* C16: in the scripts that wait for the download, waitForDownload is invoked,
\* and its baseline captured, only after the export step has returned; a path
\* the watcher reports is never that of an entry of the baseline, only of an
\* entry created after the invocation; and when no entry is created after the
\* invocation the watcher resolves with null only, not before the full timeout,
\* and the script reports the failure whatever is in the directory.
C16_ExportedBeforeBaseline ==
  WaitsForDownload(script) =>
    /\ pc \in BeforeWait => sess[1].status = "idle"
    /\ \A i \in 1..Len(log) :
         log[i] = "waitForDownload" => \E j \in 1..(i - 1) : log[j] = "export"
    /\ ResolvedWithPath(1) =>
         /\ ~Includes(sess[1].initialFiles, BaseName(sess[1].result))
         /\ BaseName(sess[1].result) \in hist[1].made
    /\ (sess[1].status = "resolved" /\ hist[1].made = {}) =>
         /\ sess[1].result = null
         /\ hist[1].lastPoll - sess[1].startTime >= sess[1].timeout
    /\ (Includes(log, "settled") /\ hist[1].made = {}) =>
         /\ downloadedFile = null
         /\ ~Includes(log, "successfully downloaded")

\* a file was in the directory when waitForDownload was invoked and is still
\* there; nothing else appeared, and the run ended reporting a failed download
C16_Witness ==
  /\ WaitsForDownload(script)
  /\ pc = "exited"
  /\ Len(sess[1].initialFiles) > 0
  /\ \A i \in 1..Len(sess[1].initialFiles) :
       /\ Includes(dir, sess[1].initialFiles[i])
       /\ size[sess[1].initialFiles[i]] > 0
  /\ hist[1].made = {}
  /\ ResolvedWithNull(1)
  /\ Includes(log, "Failed to download")

\* C17: a session settles at most once and never has more than one timer
\* pending: while it is unresolved exactly one timer (its next listing poll or
\* size re-read) is pending and nothing has settled it; once it has resolved,
\* with a path or with null, no timer of it is pending, and no later step
\* lists the directory, reads a size or changes the session again.
C17_OneTimerOneSettle ==
  /\ [](\A s \in Sessions :
          /\ sess[s].settles <= 1
          /\ sess[s].timers <= 1
          /\ Pending(sess[s]) => (sess[s].timers = 1 /\ sess[s].settles = 0)
          /\ sess[s].status = "resolved"
               => (sess[s].timers = 0 /\ sess[s].settles = 1)
          /\ sess[s].status \in {"idle", "rejected", "uncaught"}
               => sess[s].timers = 0)
  /\ [][\A s \in Sessions :
          sess[s].status = "resolved" =>
            /\ sess'[s] = sess[s]
            /\ hist'[s].lastPoll = hist[s].lastPoll
            /\ hist'[s].reads = hist[s].reads]_vars

\* a session that first polled in vain has resolved with a path after a size
\* re-read; time has passed since, and the process lives
C17_Witness ==
  \E s \in Sessions :
    /\ alive
    /\ ResolvedWithPath(s)
    /\ hist[s].reads[1].at > sess[s].startTime
    /\ hist[s].reads[2].at < now
    /\ sess[s].timers = 0
    /\ sess[s].settles = 1

\* the step is the size re-read of session s, made when its candidate is not
\* an entry of the directory (removed or renamed since the first read)
RereadOfMissing(s) ==
  /\ sess[s].status = "verifying"
  /\ sess'[s] # sess[s]
  /\ ~CanStat(sess[s].filePath)

\* C18: when the candidate is gone at the session's second size read, the read
\* throws inside the timer callback: the promise is neither resolved (with the
\* path or with null) nor rejected, then or later, the process dies of the
\* uncaught exception, and the script's catch handler never runs.
C18_MissingCandidateIsUncaught ==
  /\ [][\A s \in Sessions :
          RereadOfMissing(s) =>
            /\ sess'[s].status = "uncaught"
            /\ sess'[s].error = "statSync"
            /\ sess'[s].settles = 0
            /\ ~alive']_vars
  /\ [][\A s \in Sessions :
          sess[s].status = "uncaught" => sess'[s] = sess[s]]_vars
  /\ [](\A s \in Sessions :
          sess[s].error = "statSync" =>
            /\ sess[s].status = "uncaught"
            /\ ~alive
            /\ downloadedFile = undefined
            /\ ~Includes(log, "settled")
            /\ ~Includes(log, "error")
            /\ browser = "open" /\ server = "listening"
            /\ pc = "exited" =>
                 (exitCode = UncaughtExitCode /\ log[Len(log)] = "uncaught"))

\* the candidate was read once and was gone at the second read; the run of the
\* script has ended with the uncaught exception
C18_Witness ==
  /\ sess[1].error = "statSync"
  /\ Len(hist[1].reads) = 1
  /\ hist[1].reads[1].path = sess[1].filePath
  /\ dirExists
  /\ pc = "exited"

TypeOK ==
  /\ now \in 0..MaxTime
  /\ \A s \in Sessions : sess[s].status \in
        {"idle", "waiting", "verifying", "resolved", "rejected", "uncaught"}
====
